---- MODULE Spec2Model ----
(***************************************************************************)
(* Model of the tcolour crate: the Colour value type with its blend modes  *)
(* and alpha compositing (src/src/colour.rs) and the Gradient stop list    *)
(* with bracket search and interpolation (src/src/gradient.rs).            *)
(*                                                                         *)
(* An f64 is modelled as an exact rational n/d or one of NaN, +inf, -inf.  *)
(* Rounding, overflow to infinity, subnormals and the sign of zero are not *)
(* represented: every finite value of the model is a small rational, which *)
(* f64 arithmetic over the few operations of one call handles with the     *)
(* same comparisons and the same special cases (x/0, inf-inf, 0*inf).      *)
(***************************************************************************)
EXTENDS Integers, Sequences, FiniteSets, TLC

\* ------------------------------------------------------------------------
\* Bounds
\* ------------------------------------------------------------------------
MaxStops == 3      \* longest gradient the Insert action builds
MaxNaN == 1        \* stops with a NaN position the Insert action builds
MaxChan == 3       \* red channels of the blended colours are 0/2..MaxChan/2
MaxLen == 5        \* longest sequence a colour is built from

\* ------------------------------------------------------------------------
\* f64
\* ------------------------------------------------------------------------
Abs(x) == IF x < 0 THEN -x ELSE x

RECURSIVE Gcd(_, _)
Gcd(x, y) == IF y = 0 THEN x ELSE Gcd(y, x % y)

NaN == [k |-> "nan", n |-> 0, d |-> 1]
PInf == [k |-> "inf", n |-> 1, d |-> 1]
NInf == [k |-> "inf", n |-> -1, d |-> 1]

\* the finite value n/d (d # 0) in lowest terms with a positive denominator
Fin(n, d) ==
    LET g == Gcd(Abs(n), Abs(d))
        s == IF d < 0 THEN -1 ELSE 1
    IN  [k |-> "fin", n |-> (s * n) \div g, d |-> (s * d) \div g]

Zero == Fin(0, 1)
Half == Fin(1, 2)
One == Fin(1, 1)
Two == Fin(2, 1)

Sign(x) == IF x.n < 0 THEN -1 ELSE IF x.n = 0 THEN 0 ELSE 1
Inf(s) == IF s < 0 THEN NInf ELSE PInf

is_nan(x) == x.k = "nan"
is_finite(x) == x.k = "fin"

\* f64::is_normal: false for NaN, the infinities, subnormals and zero
is_normal(x) == x.k = "fin" /\ x.n # 0

\* IEEE comparisons: every comparison with NaN is false
FEq(x, y) == ~is_nan(x) /\ ~is_nan(y) /\ x = y
FLt(x, y) ==
    /\ ~is_nan(x) /\ ~is_nan(y)
    /\ IF x.k = "inf" THEN x.n < 0 /\ y # NInf
       ELSE IF y.k = "inf" THEN y.n > 0
       ELSE x.n * y.d < y.n * x.d
FGt(x, y) == FLt(y, x)
FLe(x, y) == FLt(x, y) \/ FEq(x, y)
FGe(x, y) == FLe(y, x)

FNeg(x) == IF x.k = "nan" THEN NaN ELSE [x EXCEPT !.n = -x.n]

FAdd(x, y) ==
    IF is_nan(x) \/ is_nan(y) THEN NaN
    ELSE IF x.k = "inf" THEN (IF y.k = "inf" /\ y.n # x.n THEN NaN ELSE x)
    ELSE IF y.k = "inf" THEN y
    ELSE Fin(x.n * y.d + y.n * x.d, x.d * y.d)

FSub(x, y) == FAdd(x, FNeg(y))

FMul(x, y) ==
    IF is_nan(x) \/ is_nan(y) THEN NaN
    ELSE IF x.k = "inf" \/ y.k = "inf"
         THEN (IF Sign(x) * Sign(y) = 0 THEN NaN ELSE Inf(Sign(x) * Sign(y)))
    ELSE Fin(x.n * y.n, x.d * y.d)

FDiv(x, y) ==
    IF is_nan(x) \/ is_nan(y) THEN NaN
    ELSE IF x.k = "inf" THEN (IF y.k = "inf" THEN NaN
                              ELSE Inf(IF Sign(y) < 0 THEN -Sign(x) ELSE Sign(x)))
    ELSE IF y.k = "inf" THEN Zero
    ELSE IF y.n = 0 THEN (IF x.n = 0 THEN NaN ELSE Inf(Sign(x)))
    ELSE Fin(x.n * y.d, x.d * y.n)

\* f64::min / f64::max: a NaN operand is ignored
FMin(x, y) == IF is_nan(x) THEN y ELSE IF is_nan(y) THEN x
              ELSE IF FLt(y, x) THEN y ELSE x
FMax(x, y) == IF is_nan(x) THEN y ELSE IF is_nan(y) THEN x
              ELSE IF FGt(y, x) THEN y ELSE x

\* ------------------------------------------------------------------------
\* Colour
\* ------------------------------------------------------------------------
new(r, g, b, a) == [r |-> r, g |-> g, b |-> b, a |-> a]
solid(r, g, b) == new(r, g, b, One)
grey(v) == solid(v, v, v)
red(v) == solid(v, Zero, Zero)
green(v) == solid(Zero, v, Zero)
blue(v) == solid(Zero, Zero, v)
transparent == new(Zero, Zero, Zero, Zero)
with_alpha(c, alpha) == [c EXCEPT !.a = alpha]

\* operators: the alpha of the result is the alpha of the Colour operand
\* (the left one when both operands are colours)
AddCF(c, x) == new(FAdd(c.r, x), FAdd(c.g, x), FAdd(c.b, x), c.a)
\* mutant: the scalar multiplies the alpha as well
MulCF_rgba(c, x) ==
    new(FMul(c.r, x), FMul(c.g, x), FMul(c.b, x), FMul(c.a, x))
MulCF(c, x) == new(FMul(c.r, x), FMul(c.g, x), FMul(c.b, x), c.a)
AddCC(c, o) == new(FAdd(c.r, o.r), FAdd(c.g, o.g), FAdd(c.b, o.b), c.a)
MulCC(c, o) == new(FMul(c.r, o.r), FMul(c.g, o.g), FMul(c.b, o.b), c.a)
SubCF(c, x) == new(FSub(c.r, x), FSub(c.g, x), FSub(c.b, x), c.a)
SubFC(x, c) == new(FSub(x, c.r), FSub(x, c.g), FSub(x, c.b), c.a)
SubCC(c, o) == new(FSub(c.r, o.r), FSub(c.g, o.g), FSub(c.b, o.b), c.a)
DivCF(c, x) == new(FDiv(c.r, x), FDiv(c.g, x), FDiv(c.b, x), c.a)
DivFC(x, c) == new(FDiv(x, c.r), FDiv(x, c.g), FDiv(x, c.b), c.a)
DivCC(c, o) == new(FDiv(c.r, o.r), FDiv(c.g, o.g), FDiv(c.b, o.b), c.a)

\* impl_op_ex_commutative: f64 + Colour and f64 * Colour are the same
\* closures with the operands swapped
AddFC(x, c) == AddCF(c, x)
MulFC(x, c) == MulCF(c, x)

inverted(c) == SubFC(One, c)
NegC(c) == inverted(c)

CleanChannel(v) == IF ~is_normal(v) THEN One ELSE v

\* mutant: nothing is cleaned
cleaned_nothing(c) == c

\* map_rgba with that closure: alpha is cleaned as well
cleaned(c) ==
    new(CleanChannel(c.r), CleanChannel(c.g), CleanChannel(c.b),
        CleanChannel(c.a))

\* Colour::clean: apply_rgba with the same test, in place
clean(c) ==
    new(IF ~is_normal(c.r) THEN One ELSE c.r,
        IF ~is_normal(c.g) THEN One ELSE c.g,
        IF ~is_normal(c.b) THEN One ELSE c.b,
        IF ~is_normal(c.a) THEN One ELSE c.a)

lerp(c, o, t) == AddCC(c, MulCF(SubCC(o, c), t))

\* mutant: the highest of the RGB channels, alpha left out
max_channel_rgb(c) == FMax(c.r, FMax(c.g, c.b))

max_channel(c) == FMax(c.r, FMax(c.g, FMax(c.b, c.a)))
min_channel(c) == FMin(c.r, FMin(c.g, FMin(c.b, c.a)))

\* Colour::normalise: nothing when min >= 0 and max <= 1, else every
\* channel, alpha included, becomes (v - min) / (max - min)
normalise(c) ==
    LET max == FMax(max_channel(c), One)
        min == FMin(min_channel(c), Zero)
    IN  IF FGe(min, Zero) /\ FLe(max, One) THEN c
        ELSE new(FDiv(FSub(c.r, min), FSub(max, min)),
                 FDiv(FSub(c.g, min), FSub(max, min)),
                 FDiv(FSub(c.b, min), FSub(max, min)),
                 FDiv(FSub(c.a, min), FSub(max, min)))

normalised(c) == normalise(c)

\* Colour::from_u8 and from_u8_rgba: each u8 over 255
from_u8(r, g, b) == solid(Fin(r, 255), Fin(g, 255), Fin(b, 255))
from_u8_rgba(r, g, b, a) == with_alpha(from_u8(r, g, b), Fin(a, 255))

\* ------------------------------------------------------------------------
\* TryFrom<&[f64]>, <Vec<f64>>, <&[u8]>, <Vec<u8>> for Colour
\* ------------------------------------------------------------------------
TooMany == "There are too many elements."
NotEnough == "There are not enough elements."
Err(message) == [outcome |-> "err", error |-> message, colour |-> transparent]
Ok(c) == [outcome |-> "ok", error |-> "", colour |-> c]
IndexPanic == [outcome |-> "panic", error |-> "", colour |-> transparent]

\* mutant: the lower check is len() < 2
try_from_f64_slice_short(value) ==
    IF Len(value) > 4 THEN Err(TooMany)
    ELSE IF Len(value) < 2 THEN Err(NotEnough)
    ELSE IF Len(value) = 3 THEN Ok(solid(value[1], value[2], value[3]))
    ELSE IF Len(value) < 4 THEN IndexPanic
    ELSE Ok(new(value[1], value[2], value[3], value[4]))

\* value[i] panics past the end of the slice; the last branch reads
\* value[3], the one before it value[2]
try_from_f64_slice(value) ==
    IF Len(value) > 4 THEN Err(TooMany)
    ELSE IF Len(value) < 3 THEN Err(NotEnough)
    ELSE IF Len(value) = 3 THEN Ok(solid(value[1], value[2], value[3]))
    ELSE IF Len(value) < 4 THEN IndexPanic
    ELSE Ok(new(value[1], value[2], value[3], value[4]))

try_from_f64_vec(value) ==
    IF Len(value) > 4 THEN Err(TooMany)
    ELSE IF Len(value) < 3 THEN Err(NotEnough)
    ELSE IF Len(value) = 3 THEN Ok(solid(value[1], value[2], value[3]))
    ELSE IF Len(value) < 4 THEN IndexPanic
    ELSE Ok(new(value[1], value[2], value[3], value[4]))

try_from_u8_slice(value) ==
    IF Len(value) > 4 THEN Err(TooMany)
    ELSE IF Len(value) < 3 THEN Err(NotEnough)
    ELSE IF Len(value) = 3 THEN Ok(from_u8(value[1], value[2], value[3]))
    ELSE IF Len(value) < 4 THEN IndexPanic
    ELSE Ok(from_u8_rgba(value[1], value[2], value[3], value[4]))

try_from_u8_vec(value) ==
    IF Len(value) > 4 THEN Err(TooMany)
    ELSE IF Len(value) < 3 THEN Err(NotEnough)
    ELSE IF Len(value) = 3 THEN Ok(from_u8(value[1], value[2], value[3]))
    ELSE IF Len(value) < 4 THEN IndexPanic
    ELSE Ok(from_u8_rgba(value[1], value[2], value[3], value[4]))

BlendModes == {"Normal", "Multiply", "Divide", "Addition", "Subtract",
               "Screen", "Overlay", "HardLight", "SoftLight", "Darken",
               "Lighten"}

\* the closure of the Overlay arm
overlay(base, blend) ==
    IF FLt(base, Half)
    THEN FMul(FMul(Two, blend), base)
    ELSE FSub(One, FMul(FMul(Two, FSub(One, base)), FSub(One, blend)))

\* the map_with calls of the Darken, Lighten and Overlay arms: the closure
\* on each RGB pair, the alpha of self
map_with_min(self, other) ==
    new(FMin(self.r, other.r), FMin(self.g, other.g), FMin(self.b, other.b),
        self.a)
map_with_max(self, other) ==
    new(FMax(self.r, other.r), FMax(self.g, other.g), FMax(self.b, other.b),
        self.a)
map_with_overlay(self, other) ==
    new(overlay(self.r, other.r), overlay(self.g, other.g),
        overlay(self.b, other.b), self.a)

\* mutant: the base alpha weighted by itself instead of by the layer
alpha_composite_self(self, other) ==
    FAdd(other.a, FMul(self.a, FSub(One, self.a)))

\* the alpha compositing that ends Colour::blend
alpha_composite(self, other) ==
    FAdd(other.a, FMul(self.a, FSub(One, other.a)))

\* mutant: the blended colour is not weighted by the layer's alpha
composite_unweighted(self, other, blended) ==
    with_alpha(
        DivCF(AddCC(blended, MulCF(MulCF(self, self.a), FSub(One, other.a))),
              alpha_composite(self, other)),
        alpha_composite(self, other))

composite(self, other, blended) ==
    with_alpha(
        DivCF(AddCC(MulCF(blended, other.a),
                    MulCF(MulCF(self, self.a), FSub(One, other.a))),
              alpha_composite(self, other)),
        alpha_composite(self, other))

\* Colour::blend: self is the base layer, other the blend layer
RECURSIVE blend(_, _, _)
blend(self, other, blend_mode) ==
    LET blended ==
            CASE blend_mode = "Normal" -> other
              [] blend_mode = "Addition" -> AddCC(self, other)
              [] blend_mode = "Subtract" -> SubCC(self, other)
              [] blend_mode = "Multiply" -> MulCC(self, other)
              [] blend_mode = "Divide" -> DivCC(self, other)
              [] blend_mode = "Darken" -> map_with_min(self, other)
              [] blend_mode = "Lighten" -> map_with_max(self, other)
              [] blend_mode = "Screen" ->
                    NegC(MulCC(NegC(self), NegC(other)))
              [] blend_mode = "Overlay" -> map_with_overlay(self, other)
              [] blend_mode = "HardLight" -> blend(other, self, "Overlay")
              [] blend_mode = "SoftLight" ->
                    AddCC(MulCC(self, NegC(MulCC(NegC(other), NegC(other)))),
                          MulCC(NegC(self), other))
    IN  composite(self, other, cleaned(blended))

\* mutant: the roles are not swapped
blend_onto_unswapped(self, other, blend_mode) == blend(self, other, blend_mode)

blend_onto(self, other, blend_mode) == blend(other, self, blend_mode)
compose(self, other) == blend(self, other, "Normal")
compose_onto(self, other) == blend_onto(self, other, "Normal")

\* ------------------------------------------------------------------------
\* Gradient: a Vec of (position, colour) stops
\* ------------------------------------------------------------------------
Min(S) == CHOOSE x \in S : \A y \in S : x <= y

InsertAt(s, i, e) == SubSeq(s, 1, i - 1) \o <<e>> \o SubSeq(s, i, Len(s))

\* mutant: skip_while(v <= t), so an equal position is passed over
insert_skip_equal(s, tt, c) ==
    LET rest == {i \in 1..Len(s) : ~FLe(s[i][1], tt)}
    IN  IF rest # {}
        THEN LET index == Min(rest)
             IN  IF FEq(s[index][1], tt)
                 THEN [s EXCEPT ![index] = <<s[index][1], c>>]
                 ELSE InsertAt(s, index, <<tt, c>>)
        ELSE Append(s, <<tt, c>>)

\* mutant: on an equal position the stop found is overwritten and so is
\* the one after it
insert_replace_two(s, tt, c) ==
    LET rest == {i \in 1..Len(s) : ~FLt(s[i][1], tt)}
    IN  IF rest # {}
        THEN LET index == Min(rest)
             IN  IF FEq(s[index][1], tt)
                 THEN [i \in 1..Len(s) |->
                          IF i = index THEN <<s[i][1], c>>
                          ELSE IF i = index + 1 THEN <<s[i][1], c>>
                          ELSE s[i]]
                 ELSE InsertAt(s, index, <<tt, c>>)
        ELSE Append(s, <<tt, c>>)

\* Gradient::insert: the first stop whose position is not below tt is
\* replaced when its position equals tt, else the new stop goes before it;
\* with no such stop the new stop is pushed at the end
insert(s, tt, c) ==
    LET rest == {i \in 1..Len(s) : ~FLt(s[i][1], tt)}
    IN  IF rest # {}
        THEN LET index == Min(rest)
             IN  IF FEq(s[index][1], tt)
                 THEN [s EXCEPT ![index] = <<s[index][1], c>>]
                 ELSE InsertAt(s, index, <<tt, c>>)
        ELSE Append(s, <<tt, c>>)

NoStop == <<NaN, transparent>>
Panic == [panic |-> TRUE, from |-> NoStop, to |-> NoStop, lt |-> NaN,
          col |-> transparent]
Ret(from, to, lt, col) == [panic |-> FALSE, from |-> from, to |-> to,
                           lt |-> lt, col |-> col]
NoRet == Ret(NoStop, NoStop, NaN, transparent)

\* mutant: curr.0 >= t
subgradient_ge(s, tt) ==
    LET above == {i \in 1..Len(s) : FGe(s[i][1], tt)}
    IN  IF above # {}
        THEN LET i == Min(above)
             IN  Ret(IF i = 1 THEN s[i] ELSE s[i - 1], s[i], NaN, transparent)
        ELSE IF Len(s) > 0
             THEN Ret(s[Len(s)], s[Len(s)], NaN, transparent)
             ELSE Panic

\* mutant: prev is never updated, so the lower stop is always the first
subgradient_first(s, tt) ==
    LET above == {i \in 1..Len(s) : FGt(s[i][1], tt)}
    IN  IF above # {}
        THEN Ret(s[1], s[Min(above)], NaN, transparent)
        ELSE IF Len(s) > 0
             THEN Ret(s[Len(s)], s[Len(s)], NaN, transparent)
             ELSE Panic

\* mutant: unwrap_or instead of unwrap, an empty gradient yields a default
subgradient_unwrap_or(s, tt) ==
    LET above == {i \in 1..Len(s) : FGt(s[i][1], tt)}
    IN  IF above # {}
        THEN LET i == Min(above)
             IN  Ret(IF i = 1 THEN s[i] ELSE s[i - 1], s[i], NaN, transparent)
        ELSE IF Len(s) > 0
             THEN Ret(s[Len(s)], s[Len(s)], NaN, transparent)
             ELSE NoRet

\* Gradient::subgradient: the first stop above tt paired with the stop
\* before it (with itself when it is the first stop), else the last stop
\* twice; unwrap() panics on an empty gradient
subgradient(s, tt) ==
    LET above == {i \in 1..Len(s) : FGt(s[i][1], tt)}
    IN  IF above # {}
        THEN LET i == Min(above)
             IN  Ret(IF i = 1 THEN s[i] ELSE s[i - 1], s[i], NaN, transparent)
        ELSE IF Len(s) > 0
             THEN Ret(s[Len(s)], s[Len(s)], NaN, transparent)
             ELSE Panic

\* the closure Gradient::sample passes to interpolate
sample_closure(from, to, lt) ==
    with_alpha(AddCC(from, MulCF(SubCC(to, from), lt)),
               FAdd(from.a, FMul(FSub(to.a, from.a), lt)))

\* the interpolators the model's callers pass to Gradient::interpolate
Interpolators == {"lerp", "step"}
call_interpolator(f, from, to, lt) ==
    IF f = "lerp" THEN lerp(from, to, lt)
    ELSE IF FLt(lt, Half) THEN from ELSE to

\* mutant: a quotient that is not normal becomes 0
local_t_zero(tt, t_from, t_to) ==
    LET normalised_t == FDiv(FSub(tt, t_from), FSub(t_to, t_from))
    IN  IF ~is_normal(normalised_t) THEN Zero ELSE normalised_t

\* the t handed to the interpolator: (t - t_from) / (t_to - t_from), or 1
\* when that quotient is not a normal number
local_t(tt, t_from, t_to) ==
    LET normalised_t == FDiv(FSub(tt, t_from), FSub(t_to, t_from))
    IN  IF ~is_normal(normalised_t) THEN One ELSE normalised_t

interpolate(s, tt, f) ==
    LET sub == subgradient(s, tt)
    IN  IF sub.panic THEN Panic
        ELSE LET lt == local_t(tt, sub.from[1], sub.to[1])
             IN  Ret(sub.from, sub.to, lt,
                     call_interpolator(f, sub.from[2], sub.to[2], lt))

sample(s, tt) ==
    LET sub == subgradient(s, tt)
    IN  IF sub.panic THEN Panic
        ELSE LET lt == local_t(tt, sub.from[1], sub.to[1])
             IN  Ret(sub.from, sub.to, lt,
                     sample_closure(sub.from[2], sub.to[2], lt))

select(s, tt) ==
    LET sub == subgradient(s, tt)
    IN  IF sub.panic THEN Panic ELSE [sub EXCEPT !.col = sub.from[2]]

select_upper(s, tt) ==
    LET sub == subgradient(s, tt)
    IN  IF sub.panic THEN Panic ELSE [sub EXCEPT !.col = sub.to[2]]

\* ------------------------------------------------------------------------
\* Inputs of the gradient operations
\* ------------------------------------------------------------------------
StopPositions == {Zero, One, Two}
StopColours == {red(One), new(Zero, Half, Zero, Zero)}
\* what insert is called with: each position with each colour, and a NaN
\* position
InsertInputs == (StopPositions \X StopColours) \cup {<<NaN, red(One)>>}
\* the stop positions, the points half way between and beside them, NaN and
\* +inf
QueryPositions == {Fin(i, 2) : i \in (-1)..5} \cup {NaN, PInf}

\* ------------------------------------------------------------------------
\* Inputs of the blend operations
\* ------------------------------------------------------------------------
RedChannels == {Fin(i, 2) : i \in 0..MaxChan} \cup {PInf}
GreenChannels == {Zero, One}
Alphas == {Zero, Half, One}
BlendColours ==
    {new(r, g, Zero, a) : r \in RedChannels, g \in GreenChannels, a \in Alphas}

\* ------------------------------------------------------------------------
\* State
\* ------------------------------------------------------------------------
VARIABLES
    stops,         \* Gradient.0
    pre,           \* Gradient.0 as the last call found it
    op,            \* the last Gradient method called
    t,             \* its position argument
    colour,        \* insert's colour argument
    interpolator,  \* interpolate's closure argument
    ret,           \* what the call returned
    call,          \* the last Colour method called
    receiver,      \* its self
    argument,      \* its other
    mode,          \* its blend_mode
    scalar,        \* its f64 argument
    value,         \* the sequence TryFrom is called on, with its element type
    outcome,       \* "ok", "err" or "panic" once TryFrom was called
    error,         \* the Err message
    result         \* the colour it returned

gvars == <<stops, pre, op, t, colour, interpolator, ret>>
cvars == <<call, receiver, argument, mode, scalar, value, outcome, error,
           result>>
vars == <<stops, pre, op, t, colour, interpolator, ret,
          call, receiver, argument, mode, scalar, value, outcome, error,
          result>>

NoValue == [ty |-> "none", elems |-> <<>>]

Init ==
    /\ stops = <<>>
    /\ pre = <<>>
    /\ op = "new"
    /\ t = NaN
    /\ colour = transparent
    /\ interpolator = "none"
    /\ ret = NoRet
    /\ call = "none"
    /\ receiver = transparent
    /\ argument = transparent
    /\ mode = "Normal"
    /\ scalar = Zero
    /\ value = NoValue
    /\ outcome = "none"
    /\ error = ""
    /\ result = transparent

Query(name, tt, f, r) ==
    /\ op' = name
    /\ t' = tt
    /\ colour' = transparent
    /\ interpolator' = f
    /\ pre' = stops
    /\ ret' = r
    /\ UNCHANGED stops
    /\ UNCHANGED cvars

NaNStops(s) == {i \in 1..Len(s) : is_nan(s[i][1])}

Insert(tt, c) ==
    /\ Len(insert(stops, tt, c)) <= MaxStops
    /\ Cardinality(NaNStops(insert(stops, tt, c))) <= MaxNaN
    /\ stops' = insert(stops, tt, c)
    /\ pre' = stops
    /\ op' = "insert"
    /\ t' = tt
    /\ colour' = c
    /\ interpolator' = "none"
    /\ ret' = NoRet
    /\ UNCHANGED cvars

Subgradient(tt) == Query("subgradient", tt, "none", subgradient(stops, tt))
Interpolate(tt, f) == Query("interpolate", tt, f, interpolate(stops, tt, f))
Sample(tt) == Query("sample", tt, "none", sample(stops, tt))
Select(tt) == Query("select", tt, "none", select(stops, tt))
SelectUpper(tt) == Query("select_upper", tt, "none", select_upper(stops, tt))

Next ==
    \/ \E in \in InsertInputs : Insert(in[1], in[2])
    \/ \E tt \in QueryPositions : Subgradient(tt)
    \/ \E tt \in QueryPositions, f \in Interpolators : Interpolate(tt, f)
    \/ \E tt \in QueryPositions : Sample(tt)
    \/ \E tt \in QueryPositions : Select(tt)
    \/ \E tt \in QueryPositions : SelectUpper(tt)

Spec == Init /\ [][Next]_vars

\* ------------------------------------------------------------------------
\* Colour operations: one call on a pair of colours
\* ------------------------------------------------------------------------
InitBlend ==
    /\ stops = <<>>
    /\ pre = <<>>
    /\ op = "new"
    /\ t = NaN
    /\ colour = transparent
    /\ interpolator = "none"
    /\ ret = NoRet
    /\ call = "none"
    /\ receiver \in BlendColours
    /\ argument \in BlendColours
    /\ mode = "Normal"
    /\ scalar = Zero
    /\ value = NoValue
    /\ outcome = "none"
    /\ error = ""
    /\ result = transparent

Called(name, blend_mode, r) ==
    /\ call = "none"
    /\ call' = name
    /\ mode' = blend_mode
    /\ result' = r
    /\ UNCHANGED <<receiver, argument, scalar, value, outcome, error>>
    /\ UNCHANGED gvars

Blend(blend_mode) ==
    Called("blend", blend_mode, blend(receiver, argument, blend_mode))
BlendOnto(blend_mode) ==
    Called("blend_onto", blend_mode,
           blend_onto(receiver, argument, blend_mode))
Compose == Called("compose", "Normal", compose(receiver, argument))
ComposeOnto ==
    Called("compose_onto", "Normal", compose_onto(receiver, argument))

NextBlend ==
    \/ \E m \in BlendModes : Blend(m)
    \/ \E m \in BlendModes : BlendOnto(m)
    \/ Compose
    \/ ComposeOnto

SpecBlend == InitBlend /\ [][NextBlend]_vars

\* ------------------------------------------------------------------------
\* Pure functions of one or two colours and a scalar: the inputs are drawn
\* in the initial state, one call is made
\* ------------------------------------------------------------------------
ArithReds == {Fin(-1, 2), Zero, Half, Fin(3, 2), NaN, PInf}
ArithAlphas == {Zero, Half, Fin(3, 2), NaN}
ArithColours ==
    {new(r, g, One, a) : r \in ArithReds, g \in GreenChannels,
                         a \in ArithAlphas}
ArithOthers ==
    {transparent, new(Half, Two, Zero, Half), new(PInf, One, NaN, One)}
Scalars == {Zero, Half, Two, NaN}

InitColour ==
    /\ stops = <<>>
    /\ pre = <<>>
    /\ op = "new"
    /\ t = NaN
    /\ colour = transparent
    /\ interpolator = "none"
    /\ ret = NoRet
    /\ call = "none"
    /\ receiver \in ArithColours
    /\ argument \in ArithOthers
    /\ mode = "Normal"
    /\ scalar \in Scalars
    /\ value = NoValue
    /\ outcome = "none"
    /\ error = ""
    /\ result = transparent

Lerp == Called("lerp", "Normal", lerp(receiver, argument, scalar))
AddColourScalar == Called("add_cf", "Normal", AddCF(receiver, scalar))
AddScalarColour == Called("add_fc", "Normal", AddFC(scalar, receiver))
MulColourScalar == Called("mul_cf", "Normal", MulCF(receiver, scalar))
MulScalarColour == Called("mul_fc", "Normal", MulFC(scalar, receiver))
AddColours == Called("add_cc", "Normal", AddCC(receiver, argument))
MulColours == Called("mul_cc", "Normal", MulCC(receiver, argument))
SubColourScalar == Called("sub_cf", "Normal", SubCF(receiver, scalar))
SubScalarColour == Called("sub_fc", "Normal", SubFC(scalar, receiver))
SubColours == Called("sub_cc", "Normal", SubCC(receiver, argument))
DivColourScalar == Called("div_cf", "Normal", DivCF(receiver, scalar))
DivScalarColour == Called("div_fc", "Normal", DivFC(scalar, receiver))
DivColours == Called("div_cc", "Normal", DivCC(receiver, argument))
Neg == Called("neg", "Normal", NegC(receiver))
Cleaned == Called("cleaned", "Normal", cleaned(receiver))
Clean == Called("clean", "Normal", clean(receiver))
Normalised == Called("normalised", "Normal", normalised(receiver))
Normalise == Called("normalise", "Normal", normalise(receiver))

NextColour ==
    \/ Lerp
    \/ AddColourScalar
    \/ AddScalarColour
    \/ MulColourScalar
    \/ MulScalarColour
    \/ AddColours
    \/ MulColours
    \/ SubColourScalar
    \/ SubScalarColour
    \/ SubColours
    \/ DivColourScalar
    \/ DivScalarColour
    \/ DivColours
    \/ Neg
    \/ Cleaned
    \/ Clean
    \/ Normalised
    \/ Normalise

SpecColour == InitColour /\ [][NextColour]_vars

\* ------------------------------------------------------------------------
\* Colour::try_from on a sequence drawn in the initial state
\* ------------------------------------------------------------------------
F64Elems == {Zero, Half, NaN}
U8Elems == {0, 51, 255}
SeqsUpTo(S, n) == UNION {[1..k -> S] : k \in 0..n}
TryFromInputs ==
    {[ty |-> "f64", elems |-> e] : e \in SeqsUpTo(F64Elems, MaxLen)}
    \cup {[ty |-> "u8", elems |-> e] : e \in SeqsUpTo(U8Elems, MaxLen)}

InitTryFrom ==
    /\ stops = <<>>
    /\ pre = <<>>
    /\ op = "new"
    /\ t = NaN
    /\ colour = transparent
    /\ interpolator = "none"
    /\ ret = NoRet
    /\ call = "none"
    /\ receiver = transparent
    /\ argument = transparent
    /\ mode = "Normal"
    /\ scalar = Zero
    /\ value \in TryFromInputs
    /\ outcome = "none"
    /\ error = ""
    /\ result = transparent

Tried(name, ty, r) ==
    /\ call = "none"
    /\ value.ty = ty
    /\ call' = name
    /\ outcome' = r.outcome
    /\ error' = r.error
    /\ result' = r.colour
    /\ UNCHANGED <<receiver, argument, mode, scalar, value>>
    /\ UNCHANGED gvars

TryFromF64Slice ==
    Tried("try_from_f64_slice", "f64", try_from_f64_slice(value.elems))
TryFromF64Vec ==
    Tried("try_from_f64_vec", "f64", try_from_f64_vec(value.elems))
TryFromU8Slice ==
    Tried("try_from_u8_slice", "u8", try_from_u8_slice(value.elems))
TryFromU8Vec ==
    Tried("try_from_u8_vec", "u8", try_from_u8_vec(value.elems))

NextTryFrom ==
    \/ TryFromF64Slice
    \/ TryFromF64Vec
    \/ TryFromU8Slice
    \/ TryFromU8Vec

SpecTryFrom == InitTryFrom /\ [][NextTryFrom]_vars

\* ------------------------------------------------------------------------
\* Properties of the gradient (checked under Spec)
\* ------------------------------------------------------------------------
StrictlyAscending(s) == \A i \in 1..(Len(s) - 1) : FLt(s[i][1], s[i + 1][1])
UniquePositions(s) ==
    \A i, j \in 1..Len(s) : i # j => ~FEq(s[i][1], s[j][1])
Remove(s, k) == SubSeq(s, 1, k - 1) \o SubSeq(s, k + 1, Len(s))
Finite(c) == is_finite(c.r) /\ is_finite(c.g) /\ is_finite(c.b) /\ is_finite(c.a)

\* C1: as long as no NaN position has been inserted (a NaN stop is never
\* removed or replaced, so none in the list means none was inserted), the
\* stops are strictly ascending by position: sorted, and no position twice.
C1_SortedUnique ==
    NaNStops(stops) = {} => StrictlyAscending(stops) /\ UniquePositions(stops)

\* an insert between two existing stops of a gradient built without NaN
C1_Witness ==
    /\ op = "insert"
    /\ NaNStops(stops) = {}
    /\ Len(pre) = 2 /\ Len(stops) = 3
    /\ FEq(stops[2][1], t)

\* C2: insert on a strictly ascending gradient either replaces the colour of
\* the one stop at that position, keeping the length and every other stop,
\* or, when no stop has that position, adds the stop (t, colour), the list
\* without it being the list as it was.
C2_InsertFrame ==
    (op = "insert" /\ StrictlyAscending(pre)) =>
        IF \E i \in 1..Len(pre) : FEq(pre[i][1], t)
        THEN /\ Len(stops) = Len(pre)
             /\ \A i \in 1..Len(pre) :
                    stops[i] = IF FEq(pre[i][1], t)
                               THEN <<pre[i][1], colour>> ELSE pre[i]
        ELSE /\ Len(stops) = Len(pre) + 1
             /\ \E k \in 1..Len(stops) :
                    stops[k] = <<t, colour>> /\ Remove(stops, k) = pre

\* an insert that replaced the colour of the first of two stops
C2_Witness ==
    /\ op = "insert"
    /\ StrictlyAscending(pre)
    /\ Len(pre) = 2 /\ Len(stops) = 2
    /\ FEq(pre[1][1], t)
    /\ stops[1][2] # pre[1][2]
    /\ stops[2] = pre[2]

\* C3: on a non-empty strictly ascending gradient subgradient returns the
\* first stop twice for a position below the first stop, the last stop twice
\* for a position at or above the last stop, and the only stop twice, for
\* every position, when there is one stop.
C3_SubgradientEnds ==
    (op = "subgradient" /\ Len(stops) > 0 /\ StrictlyAscending(stops)) =>
        /\ ~ret.panic
        /\ FLt(t, stops[1][1]) =>
               ret.from = stops[1] /\ ret.to = stops[1]
        /\ FGe(t, stops[Len(stops)][1]) =>
               ret.from = stops[Len(stops)] /\ ret.to = stops[Len(stops)]
        /\ Len(stops) = 1 => ret.from = stops[1] /\ ret.to = stops[1]

\* a query exactly at the last of several stops
C3_Witness ==
    /\ op = "subgradient"
    /\ Len(stops) >= 2 /\ StrictlyAscending(stops)
    /\ FEq(t, stops[Len(stops)][1])
    /\ ret.from = stops[Len(stops)] /\ ret.to = stops[Len(stops)]

\* C4: on a strictly ascending gradient and for a position from the first
\* stop's up to but not including the last stop's, subgradient returns two
\* adjacent stops, the upper one being the first stop above the position,
\* so that the position is at or above the lower and below the upper.
C4_SubgradientBracket ==
    (/\ op = "subgradient" /\ Len(stops) > 0 /\ StrictlyAscending(stops)
     /\ FLe(stops[1][1], t) /\ FLt(t, stops[Len(stops)][1])) =>
        /\ ~ret.panic
        /\ \E i \in 2..Len(stops) :
            /\ ret.from = stops[i - 1] /\ ret.to = stops[i]
            /\ FGt(stops[i][1], t)
            /\ \A j \in 1..(i - 1) : ~FGt(stops[j][1], t)
        /\ FLe(ret.from[1], t) /\ FLt(t, ret.to[1])

\* a query exactly at the middle one of three stops
C4_Witness ==
    /\ op = "subgradient"
    /\ Len(stops) = 3 /\ StrictlyAscending(stops)
    /\ FEq(t, stops[2][1])
    /\ ret.from = stops[2] /\ ret.to = stops[3]

\* C5 (as stated): on a strictly ascending gradient and for a position from
\* the first stop's up to but not including the last stop's, sample returns
\* prev.c + (next.c - prev.c) * local_t in each of the four channels, with
\* local_t = (t - prev.position) / (next.position - prev.position).
C5_SampleLinear ==
    (/\ op = "sample" /\ Len(stops) > 0 /\ StrictlyAscending(stops)
     /\ FLe(stops[1][1], t) /\ FLt(t, stops[Len(stops)][1])) =>
        LET i == Min({j \in 1..Len(stops) : FGt(stops[j][1], t)})
            prev == stops[i - 1]
            next == stops[i]
            lt == FDiv(FSub(t, prev[1]), FSub(next[1], prev[1]))
            mix(x, y) == FAdd(x, FMul(FSub(y, x), lt))
        IN  /\ ~ret.panic
            /\ ret.col = new(mix(prev[2].r, next[2].r), mix(prev[2].g, next[2].g),
                             mix(prev[2].b, next[2].b), mix(prev[2].a, next[2].a))

\* C6: when the bracket is the same stop twice, interpolate hands 1.0 to the
\* interpolator and sample returns that stop's colour, all four channels.
C6_SameStop ==
    (op \in {"interpolate", "sample"} /\ ~ret.panic /\ ret.from = ret.to) =>
        /\ ret.lt = One
        /\ op = "sample" => ret.col = ret.from[2]

\* a sample below the first of several stops
C6_Witness ==
    /\ op = "sample"
    /\ Len(stops) >= 2 /\ StrictlyAscending(stops)
    /\ FLt(t, stops[1][1])
    /\ ~ret.panic /\ ret.from = ret.to
    /\ ret.col = stops[1][2]

\* ------------------------------------------------------------------------
\* Properties of blend (checked under SpecBlend)
\* ------------------------------------------------------------------------
\* C7: whatever the mode and the RGB channels, the alpha blend returns is
\* layer.a + base.a * (1 - layer.a).
C7_OutAlpha ==
    call = "blend" =>
        result.a = FAdd(argument.a, FMul(receiver.a, FSub(One, argument.a)))

\* a HardLight blend of two half-transparent colours
C7_Witness ==
    /\ call = "blend" /\ mode = "HardLight"
    /\ receiver.a = Half /\ argument.a = Half
    /\ result.a = Fin(3, 4)

\* C8 (as stated): for finite channels and a non-zero out_alpha, each RGB
\* channel of a Normal blend is
\* (layer.c * layer.a + base.c * base.a * (1 - layer.a)) / out_alpha.
C8_NormalChannels ==
    (/\ call = "blend" /\ mode = "Normal"
     /\ Finite(receiver) /\ Finite(argument)
     /\ alpha_composite(receiver, argument) # Zero) =>
        LET over(base, layer) ==
                FDiv(FAdd(FMul(layer, argument.a),
                          FMul(FMul(base, receiver.a), FSub(One, argument.a))),
                     FAdd(argument.a,
                          FMul(receiver.a, FSub(One, argument.a))))
        IN  /\ result.r = over(receiver.r, argument.r)
            /\ result.g = over(receiver.g, argument.g)
            /\ result.b = over(receiver.b, argument.b)

\* C9: compose is blend with mode Normal, and the _onto methods are the
\* same operations with the receiver as the blend layer.
C9_OntoSwaps ==
    /\ call = "compose" =>
           /\ result = blend(receiver, argument, "Normal")
           /\ result = compose_onto(argument, receiver)
    /\ call = "compose_onto" => result = compose(argument, receiver)
    /\ call = "blend_onto" => result = blend(argument, receiver, mode)

\* a blend_onto whose result differs from the blend with the roles kept
C9_Witness ==
    /\ call = "blend_onto" /\ mode = "Divide"
    /\ result = blend(argument, receiver, mode)
    /\ result # blend(receiver, argument, mode)

\* C10: composing the transparent colour over a base of alpha 1 and finite
\* channels returns the base.
C10_TransparentLayer ==
    (/\ call = "compose" /\ argument = transparent
     /\ receiver.a = One /\ Finite(receiver)) =>
        result = receiver

\* the transparent colour composed over an opaque base with a zero channel
C10_Witness ==
    /\ call = "compose" /\ argument = transparent
    /\ receiver = new(Fin(3, 2), One, Zero, One)
    /\ result = receiver

\* ------------------------------------------------------------------------
\* More properties of the gradient (checked under Spec)
\* ------------------------------------------------------------------------
Queries == {"subgradient", "interpolate", "sample", "select", "select_upper"}

\* C16: on a gradient with no stops each of subgradient, interpolate,
\* sample, select and select_upper panics, whatever the position.
C16_EmptyPanics == (op \in Queries /\ Len(stops) = 0) => ret.panic

\* a sample of the empty gradient
C16_Witness == op = "sample" /\ Len(stops) = 0 /\ ret.panic

\* C19 (as stated): on a strictly ascending gradient of two stops or more,
\* sample and select at the position of a stop return that stop's colour.
C19_ThroughStops ==
    (/\ op \in {"sample", "select"}
     /\ Len(stops) >= 2 /\ StrictlyAscending(stops)) =>
        \A i \in 1..Len(stops) :
            FEq(stops[i][1], t) => ~ret.panic /\ ret.col = stops[i][2]

\* ------------------------------------------------------------------------
\* More properties of blend (checked under SpecBlend)
\* ------------------------------------------------------------------------
Invalid(v) == ~is_finite(v)

\* C12 (as stated): a HardLight blend is the layer composited over the base
\* with, as the blended colour, the Overlay formula on (layer, base), cleaned
\* like every mode's blended colour.
C12_HardLight ==
    (call = "blend" /\ mode = "HardLight") =>
        result = composite(receiver, argument,
                           cleaned(map_with_overlay(argument, receiver)))

\* C18: when out_alpha is zero every RGB channel blend returns is NaN or
\* infinite and the alpha returned is 0, in every mode; when out_alpha is
\* not zero and the channels of both colours are finite, every channel
\* returned is finite.
C18_ZeroOutAlpha ==
    call = "blend" =>
        /\ alpha_composite(receiver, argument) = Zero =>
               /\ Invalid(result.r) /\ Invalid(result.g) /\ Invalid(result.b)
               /\ result.a = Zero
        /\ (/\ alpha_composite(receiver, argument) # Zero
            /\ Finite(receiver) /\ Finite(argument)) => Finite(result)

\* a Divide blend of two colours of alpha 0
C18_Witness ==
    /\ call = "blend" /\ mode = "Divide"
    /\ receiver.a = Zero /\ argument.a = Zero
    /\ is_nan(result.r) /\ is_nan(result.g) /\ is_nan(result.b)
    /\ result.a = Zero


\* a + (b - a) * t on one channel
Mix(x, y, tt) == FAdd(x, FMul(FSub(y, x), tt))

\* C11 (as stated): lerp(a, b, t) is a + (b - a) * t on every channel,
\* alpha included: the alpha of the result is a.a + (b.a - a.a) * t and each
\* RGB channel is a.c + (b.c - a.c) * t.
C11_LerpEveryChannel ==
    call = "lerp" =>
        /\ result.r = Mix(receiver.r, argument.r, scalar)
        /\ result.g = Mix(receiver.g, argument.g, scalar)
        /\ result.b = Mix(receiver.b, argument.b, scalar)
        /\ result.a = Mix(receiver.a, argument.a, scalar)

\* what the claim says cleaning does to one channel (the model's reals have
\* no subnormal value)
Replaced(v) == IF is_nan(v) \/ ~is_finite(v) THEN One ELSE v

\* C13 (as stated): cleaned() and clean() replace a channel with 1.0 exactly
\* when it is NaN, infinite or subnormal and return every other channel
\* unchanged, so that cleaning a cleaned colour changes nothing.
C13_CleanedExactly ==
    call \in {"cleaned", "clean"} =>
        /\ result.r = Replaced(receiver.r)
        /\ result.g = Replaced(receiver.g)
        /\ result.b = Replaced(receiver.b)
        /\ result.a = Replaced(receiver.a)
        /\ cleaned(result) = result

Channels(c) == {c.r, c.g, c.b, c.a}
Numbers(c) == {v \in Channels(c) : ~is_nan(v)}
Lowest(c) ==
    IF Numbers(c) = {} THEN NaN
    ELSE CHOOSE v \in Numbers(c) : \A w \in Numbers(c) : FLe(v, w)
Highest(c) ==
    IF Numbers(c) = {} THEN NaN
    ELSE CHOOSE v \in Numbers(c) : \A w \in Numbers(c) : FGe(v, w)
InUnit(v) == FGe(v, Zero) /\ FLe(v, One)
Rescaled(v, lo, hi) == FDiv(FSub(v, lo), FSub(hi, lo))

\* C14: normalised() returns the colour unchanged when every channel, alpha
\* included, lies in [0,1]; otherwise every channel v becomes
\* (v - min) / (max - min) with min = min(lowest channel, 0) and
\* max = max(highest channel, 1); for finite inputs every channel of the
\* result lies in [0,1].
C14_Normalised ==
    call \in {"normalised", "normalise"} =>
        LET lo == FMin(Lowest(receiver), Zero)
            hi == FMax(Highest(receiver), One)
        IN  /\ (\A v \in Channels(receiver) : InUnit(v)) => result = receiver
            /\ (\E v \in Channels(receiver) : ~InUnit(v)) =>
                   result = new(Rescaled(receiver.r, lo, hi),
                                Rescaled(receiver.g, lo, hi),
                                Rescaled(receiver.b, lo, hi),
                                Rescaled(receiver.a, lo, hi))
            /\ Finite(receiver) => \A v \in Channels(result) : InUnit(v)

C14_Witness ==
    /\ call = "normalised"
    /\ receiver = new(Fin(-1, 2), Zero, One, Fin(3, 2))
    /\ result = new(Zero, Fin(1, 4), Fin(3, 4), One)

ScalarLeft == {"add_fc", "mul_fc", "sub_fc", "div_fc"}
ScalarRight == {"add_cf", "mul_cf", "sub_cf", "div_cf"}
BothColours == {"add_cc", "mul_cc", "sub_cc", "div_cc"}
Apply(name, x, y) ==
    IF name \in {"add_cf", "add_fc", "add_cc"} THEN FAdd(x, y)
    ELSE IF name \in {"mul_cf", "mul_fc", "mul_cc"} THEN FMul(x, y)
    ELSE IF name \in {"sub_cf", "sub_fc", "sub_cc"} THEN FSub(x, y)
    ELSE FDiv(x, y)

\* C15: arithmetic between a colour and a scalar, in either operand order,
\* changes only R, G, B and leaves the colour's alpha untouched; arithmetic
\* between two colours combines R, G, B channel-wise and keeps the left
\* operand's alpha; unary negation maps each RGB channel r to 1 - r and
\* leaves alpha untouched.
C15_ArithmeticAlpha ==
    /\ call \in ScalarRight =>
           result = new(Apply(call, receiver.r, scalar),
                        Apply(call, receiver.g, scalar),
                        Apply(call, receiver.b, scalar), receiver.a)
    /\ call \in ScalarLeft =>
           result = new(Apply(call, scalar, receiver.r),
                        Apply(call, scalar, receiver.g),
                        Apply(call, scalar, receiver.b), receiver.a)
    /\ call \in BothColours =>
           result = new(Apply(call, receiver.r, argument.r),
                        Apply(call, receiver.g, argument.g),
                        Apply(call, receiver.b, argument.b), receiver.a)
    /\ call = "neg" =>
           result = new(FSub(One, receiver.r), FSub(One, receiver.g),
                        FSub(One, receiver.b), receiver.a)

C15_Witness ==
    /\ call = "mul_cf" /\ scalar = Half
    /\ receiver = new(Fin(3, 2), One, One, Half)
    /\ result = new(Fin(3, 4), Half, Half, Half)

Tries ==
    {"try_from_f64_slice", "try_from_f64_vec", "try_from_u8_slice",
     "try_from_u8_vec"}
\* the element as a channel: an f64 as it is, a u8 over 255
Channel(ty, e) == IF ty = "u8" THEN Fin(e, 255) ELSE e

\* C17: a colour built from a slice or Vec of f64 or u8 is the error
\* 'There are not enough elements.' below length 3, the distinct error
\* 'There are too many elements.' above length 4, a colour with alpha 1.0 at
\* length 3 and a colour with the fourth element as alpha at length 4; no
\* length panics.
C17_TryFrom ==
    call \in Tries =>
        LET n == Len(value.elems)
        IN  /\ outcome # "panic"
            /\ n < 3 => outcome = "err" /\ error = "There are not enough elements."
            /\ n > 4 => outcome = "err" /\ error = "There are too many elements."
            /\ n \in {3, 4} =>
                   /\ outcome = "ok"
                   /\ result.r = Channel(value.ty, value.elems[1])
                   /\ result.g = Channel(value.ty, value.elems[2])
                   /\ result.b = Channel(value.ty, value.elems[3])
            /\ n = 3 => result.a = One
            /\ n = 4 => result.a = Channel(value.ty, value.elems[4])

C17_Witness ==
    /\ call = "try_from_u8_vec"
    /\ value.elems = <<255, 0, 51, 51>>
    /\ outcome = "ok"
    /\ result = new(One, Zero, Fin(1, 5), Fin(1, 5))

====
